---- MODULE Spec2Model ----
(***************************************************************************)
(* A model of src/server.js: an Express gateway in front of two MongoDB    *)
(* collections (lessons, order_placed).                                    *)
(*                                                                         *)
(* Every route handler is an async function with one await.  It is         *)
(* modelled in three parts:                                                *)
(*   - the synchronous part up to the await (one action per route), which  *)
(*     either throws into the route's catch (a 500 response) or issues one *)
(*     database command;                                                   *)
(*   - the database executing the command, one statement at a time         *)
(*     (ServerStep); a bulkWrite is a list of statements, everything else  *)
(*     is a single statement.  With the last statement the promise settles *)
(*     and the handler runs on to its response: the response carries what  *)
(*     the database returned at that moment;                               *)
(*   - the catch block when the command is rejected instead (Fault).       *)
(* Handlers of different requests interleave at these points.              *)
(*                                                                         *)
(* Values are BSON typed: an ObjectId is <<"oid", hex>>, a JSON string is  *)
(* <<"str", chars>>.  Strings are sequences of one-character strings.      *)
(***************************************************************************)
EXTENDS Integers, Sequences, FiniteSets, TLC

\* The number of ObjectIds the process generates in one run.
MaxOid == 2

\* The requests the model follows in flight at once.
Slots == {1, 2}

VARIABLES
    db1,        \* the session handle: "undefined" until client.connect() resolves
    connectPc,  \* connectDB(): "pending" at its await, then "done"
    lessons,    \* the lessons collection: _id -> document
    orders,     \* the order_placed collection: _id -> document
    nextOid,    \* the driver's ObjectId generator
    slot,       \* the requests in flight, each at its await
    sent        \* the response written by the last step, if it wrote one

vars == <<db1, connectPc, lessons, orders, nextOid, slot, sent>>

----------------------------------------------------------------------------
\* Identifiers

\* The digits of an ObjectId's string form (0-9a-f in the driver).
HexDigits == {"0", "1"}
\* The length of an ObjectId's string form (24 in the driver).
HexLen == 3

RECURSIVE Pow2(_)
Pow2(k) == IF k = 0 THEN 1 ELSE 2 * Pow2(k - 1)

\* ObjectId.isValid for a string: exactly HexLen hexadecimal digits.
IsHexString(s) == Len(s) = HexLen /\ \A i \in 1..Len(s) : s[i] \in HexDigits

\* new ObjectId(s) for a string s that IsHexString; it throws otherwise.
ObjectId(s) == <<"oid", s>>

\* ObjectId.toHexString(), which is what res.json writes for an _id.
JsonId(key) == key[2]

\* The n-th identifier the generator hands out.
GenHex(n) == [i \in 1..HexLen |-> IF (n \div Pow2(HexLen - i)) % 2 = 0 THEN "0" ELSE "1"]
GenObjectId(n) == <<"oid", GenHex(n)>>

\* A JSON string value of a request body.
Str(s) == <<"str", s>>

----------------------------------------------------------------------------
\* Documents

NoDoc == [f \in {} |-> 0]

HasField(doc, f) == f \in DOMAIN doc

\* { ...a, ...b } and $set: b's fields over a's.
Merge(a, b) == [f \in DOMAIN a \cup DOMAIN b |-> IF f \in DOMAIN b THEN b[f] ELSE a[f]]

WithId(doc, key) == Merge(doc, [_id |-> key])

\* The collection a handle names.
Coll(name) == IF name = "lessons" THEN lessons ELSE orders

----------------------------------------------------------------------------
\* The database: what the server does with one statement of a command.
\* A statement's outcome is the collection after it, whether it succeeded,
\* the documents it returns and the number of documents it matched.

Outcome(coll, ok, docs, n) == [coll |-> coll, ok |-> ok, docs |-> docs, n |-> n]

\* find({}).toArray()
Find(coll) == Outcome(coll, TRUE, {coll[k] : k \in DOMAIN coll}, 0)

\* findOne({_id: key}): the document, or null (no document).
FindOne(coll, key) ==
    Outcome(coll, TRUE, IF key \in DOMAIN coll THEN {coll[key]} ELSE {}, 0)

\* insertOne(doc), doc carrying its _id: a duplicate key is a write error.
InsertOne(coll, doc) ==
    IF doc["_id"] \in DOMAIN coll
    THEN Outcome(coll, FALSE, {}, 0)
    ELSE Outcome((doc["_id"] :> doc) @@ coll, TRUE, {}, 0)

\* updateOne as a replacement: the document becomes the $set fields.
UpdateOneReplace(coll, key, set) ==
    IF key \notin DOMAIN coll
    THEN Outcome(coll, TRUE, {}, 0)
    ELSE Outcome([coll EXCEPT ![key] = WithId(set, key)], TRUE, {}, 1)

\* updateOne with upsert: an identifier nothing matches gets a new document.
UpdateOneUpsert(coll, key, set) ==
    IF key \notin DOMAIN coll
    THEN Outcome((key :> WithId(set, key)) @@ coll, TRUE, {}, 0)
    ELSE IF HasField(set, "_id") /\ set["_id"] # key
    THEN Outcome(coll, FALSE, {}, 0)
    ELSE Outcome([coll EXCEPT ![key] = Merge(@, set)], TRUE, {}, 1)

\* updateOne({_id: key}, {$set: set}), no upsert: nothing matched is a
\* success; a $set that would change _id is a write error.
UpdateOne(coll, key, set) ==
    IF key \notin DOMAIN coll
    THEN Outcome(coll, TRUE, {}, 0)
    ELSE IF HasField(set, "_id") /\ set["_id"] # key
    THEN Outcome(coll, FALSE, {}, 0)
    ELSE Outcome([coll EXCEPT ![key] = Merge(@, set)], TRUE, {}, 1)

\* deleteOne that removes nothing.
DeleteOneKeeps(coll, key) ==
    Outcome(coll, TRUE, {}, IF key \in DOMAIN coll THEN 1 ELSE 0)

\* deleteOne({_id: key})
DeleteOne(coll, key) ==
    Outcome([k \in DOMAIN coll \ {key} |-> coll[k]], TRUE, {},
            IF key \in DOMAIN coll THEN 1 ELSE 0)

Exec(coll, st) ==
    CASE st.cmd = "find"      -> Find(coll)
      [] st.cmd = "findOne"   -> FindOne(coll, st.key)
      [] st.cmd = "insertOne" -> InsertOne(coll, st.doc)
      [] st.cmd = "updateOne" -> UpdateOne(coll, st.key, st.set)
      [] st.cmd = "deleteOne" -> DeleteOne(coll, st.key)

\* The statements of a command: bulkWrite is an ordered list of them.
Statements(op) == IF op.cmd = "bulkWrite" THEN op.ops ELSE <<op>>

----------------------------------------------------------------------------
\* Responses

Routes == {"getLessons", "getLesson", "postLesson", "updateSpaces", "putLesson",
           "deleteLesson", "postOrder", "getOrders"}

\* The message each route's catch block sends.
CatchMessage(route) ==
    CASE route = "getLessons"   -> "Failed to fetch lessons"
      [] route = "getLesson"    -> "Failed to fetch lesson"
      [] route = "postLesson"   -> "Failed to add lesson"
      [] route = "updateSpaces" -> "Failed to update spaces"
      [] route = "putLesson"    -> "Failed to update lesson"
      [] route = "deleteLesson" -> "Failed to delete lesson"
      [] route = "postOrder"    -> "Failed to place order"
      [] route = "getOrders"    -> "Failed to fetch orders"

Response(status, kind, body) == [status |-> status, kind |-> kind, body |-> body]

\* A catch block that answers 400.
CatchBadRequest(route) == Response(400, "object", [error |-> CatchMessage(route)])

\* res.status(500).json({ error: ... }) of a route's catch block.
Catch(route) == Response(500, "object", [error |-> CatchMessage(route)])

\* The rest of a handler after its await has resolved with `result`.
Continue(route, op, result) ==
    CASE route = "getLessons"   -> Response(200, "array", result.docs)
      [] route = "getLesson"    ->
            IF result.docs # {}
            THEN Response(200, "object", CHOOSE d \in result.docs : TRUE)
            ELSE Response(404, "object", [error |-> "Lesson not found"])
      [] route = "postLesson"   ->
            Response(201, "object", WithId(op.doc, op.doc["_id"]))
      [] route = "updateSpaces" ->
            Response(200, "object", [message |-> "Spaces updated successfully",
                                     matchedCount |-> result.n])
      [] route = "putLesson"    ->
            Response(200, "object", [message |-> "Lesson updated successfully"])
      [] route = "deleteLesson" ->
            Response(200, "object", [message |-> "Lesson deleted successfully"])
      [] route = "postOrder"    ->
            Response(201, "object", [message |-> "Order placed successfully"])
      [] route = "getOrders"    -> Response(200, "array", result.docs)

----------------------------------------------------------------------------
\* Requests in flight

Idle == [pc |-> "idle"]
None == [route |-> "none"]

\* The event loop takes its next event once the last response is written out.
Ready == sent = None

\* A request is taken by the lowest free slot.
Free(r) == Ready /\ slot[r] = Idle /\ \A q \in Slots : q < r => slot[q] # Idle

\* The handler of `route`, given the request `req`, answers `resp`.
Sent(route, req, resp) == [route |-> route, req |-> req, resp |-> resp]

\* The handler throws before its await: its catch block answers.
Throw(r, route, req) ==
    /\ sent' = Sent(route, req, Catch(route))
    /\ UNCHANGED slot

\* The handler reaches its await with the command `op` issued.
Await(r, route, req, op) ==
    /\ slot' = [slot EXCEPT ![r] =
                  [pc |-> "await", route |-> route, req |-> req, op |-> op,
                   applied |-> 0, n |-> 0]]
    /\ sent' = None

\* A collection accessor that never throws.
CollectionNeverThrows == FALSE

\* lessonsCollection() / ordersCollection(): db1.collection(...) throws a
\* TypeError while db1 is undefined.
CollectionThrows == db1 = "undefined"

----------------------------------------------------------------------------
\* The requests the model sends

\* A well-formed identifier nothing was ever stored under.
NeverAssigned == GenHex(MaxOid)

\* Strings new ObjectId() rejects: a character that is no digit, a wrong length.
NotHex == <<"0", "z", "1">>
TooShort == <<"0", "1">>

\* The path identifiers sent: two that get assigned, one that never is, one malformed.
PathIds == {GenHex(0), GenHex(1), NeverAssigned, NotHex}

LessonBodies ==
    { [topic |-> "math", spaces |-> 5],
      [_id |-> Str(GenHex(0)), spaces |-> 5] }

PutBodies ==
    { [spaces |-> 0], [_id |-> Str(GenHex(0))] }

OrderBodies ==
    { [lesson |-> "math"], [_id |-> Str(GenHex(0)), lesson |-> "math"] }

Entry(id, spaces) == [id |-> id, spaces |-> spaces]

\* A body of PUT /lessons/updateSpaces: a list of entries, or a JSON object.
JsonArray(items) == [kind |-> "array", items |-> items]
JsonObject == [kind |-> "object", items |-> <<>>]

UpdateBodies ==
    { JsonArray(<<>>),
      JsonArray(<<Entry(GenHex(0), 0), Entry(GenHex(1), 0)>>),
      JsonArray(<<Entry(GenHex(1), 5), Entry(GenHex(1), 0)>>),
      JsonArray(<<Entry(GenHex(0), 0), Entry(TooShort, 5)>>),
      JsonObject }

\* Array.prototype.map exists on a list only.
IsList(body) == body.kind = "array"

----------------------------------------------------------------------------
\* connectDB (lines 59-70)

ConnectResolve ==
    /\ Ready
    /\ connectPc = "pending"
    /\ connectPc' = "done"
    /\ db1' = "db"
    /\ sent' = None
    /\ UNCHANGED <<lessons, orders, nextOid, slot>>

ConnectReject ==
    /\ Ready
    /\ connectPc = "pending"
    /\ connectPc' = "done"
    /\ sent' = None
    /\ UNCHANGED <<db1, lessons, orders, nextOid, slot>>

----------------------------------------------------------------------------
\* The route handlers up to their await

GetLessons(r) ==
    /\ Free(r)
    /\ IF CollectionThrows
       THEN Throw(r, "getLessons", NoDoc)
       ELSE Await(r, "getLessons", NoDoc, [cmd |-> "find", coll |-> "lessons"])
    /\ UNCHANGED <<db1, connectPc, lessons, orders, nextOid>>

GetLesson(r, id) ==
    /\ Free(r)
    /\ IF CollectionThrows \/ ~IsHexString(id)
       THEN Throw(r, "getLesson", [id |-> id])
       ELSE Await(r, "getLesson", [id |-> id],
                  [cmd |-> "findOne", coll |-> "lessons", key |-> ObjectId(id)])
    /\ UNCHANGED <<db1, connectPc, lessons, orders, nextOid>>

\* insertOne(doc): the driver gives a document without _id a generated one
\* before the command is sent.
PrepareInsert(r, route, coll, body) ==
    IF HasField(body, "_id")
    THEN /\ Await(r, route, [body |-> body],
                  [cmd |-> "insertOne", coll |-> coll, doc |-> body])
         /\ UNCHANGED nextOid
    ELSE /\ nextOid < MaxOid
         /\ Await(r, route, [body |-> body],
                  [cmd |-> "insertOne", coll |-> coll,
                   doc |-> WithId(body, GenObjectId(nextOid))])
         /\ nextOid' = nextOid + 1

PostLesson(r, body) ==
    /\ Free(r)
    /\ IF CollectionThrows
       THEN Throw(r, "postLesson", [body |-> body]) /\ UNCHANGED nextOid
       ELSE PrepareInsert(r, "postLesson", "lessons", body)
    /\ UNCHANGED <<db1, connectPc, lessons, orders>>

\* updates.map(...): one updateOne per entry, each id converted as it is built.
BulkOperations(items) ==
    [i \in DOMAIN items |->
        [cmd |-> "updateOne", coll |-> "lessons", key |-> ObjectId(items[i].id),
         set |-> [spaces |-> items[i].spaces]]]

\* A map that converts the first entry's id only.
MapThrowsOnFirst(updates) ==
    \/ ~IsList(updates)
    \/ updates.items # <<>> /\ ~IsHexString(updates.items[1].id)

\* The map throws: the body has no map, or an id is rejected by new ObjectId().
MapThrows(updates) ==
    \/ ~IsList(updates)
    \/ \E i \in DOMAIN updates.items : ~IsHexString(updates.items[i].id)

\* bulkWrite([]) is rejected by the driver: a batch cannot be empty.
BatchEmpty(updates) == updates.items = <<>>

UpdateSpaces(r, updates) ==
    /\ Free(r)
    /\ IF MapThrows(updates) \/ CollectionThrows \/ BatchEmpty(updates)
       THEN Throw(r, "updateSpaces", [updates |-> updates])
       ELSE Await(r, "updateSpaces", [updates |-> updates],
                  [cmd |-> "bulkWrite", coll |-> "lessons",
                   ops |-> BulkOperations(updates.items)])
    /\ UNCHANGED <<db1, connectPc, lessons, orders, nextOid>>

PutLesson(r, id, body) ==
    /\ Free(r)
    /\ IF CollectionThrows \/ ~IsHexString(id)
       THEN Throw(r, "putLesson", [id |-> id, body |-> body])
       ELSE Await(r, "putLesson", [id |-> id, body |-> body],
                  [cmd |-> "updateOne", coll |-> "lessons", key |-> ObjectId(id),
                   set |-> body])
    /\ UNCHANGED <<db1, connectPc, lessons, orders, nextOid>>

DeleteLesson(r, id) ==
    /\ Free(r)
    /\ IF CollectionThrows \/ ~IsHexString(id)
       THEN Throw(r, "deleteLesson", [id |-> id])
       ELSE Await(r, "deleteLesson", [id |-> id],
                  [cmd |-> "deleteOne", coll |-> "lessons", key |-> ObjectId(id)])
    /\ UNCHANGED <<db1, connectPc, lessons, orders, nextOid>>

PostOrder(r, body) ==
    /\ Free(r)
    /\ IF CollectionThrows
       THEN Throw(r, "postOrder", [body |-> body]) /\ UNCHANGED nextOid
       ELSE PrepareInsert(r, "postOrder", "orders", body)
    /\ UNCHANGED <<db1, connectPc, lessons, orders>>

GetOrders(r) ==
    /\ Free(r)
    /\ IF CollectionThrows
       THEN Throw(r, "getOrders", NoDoc)
       ELSE Await(r, "getOrders", NoDoc, [cmd |-> "find", coll |-> "orders"])
    /\ UNCHANGED <<db1, connectPc, lessons, orders, nextOid>>

\* The /images rule: sendFile, and a 404 from its callback when it fails.
GetImage(r, exists) ==
    /\ Free(r)
    /\ sent' = Sent("image", NoDoc,
                    IF exists THEN Response(200, "file", NoDoc)
                    ELSE Response(404, "object", [error |-> "Image not found"]))
    /\ UNCHANGED <<db1, connectPc, lessons, orders, nextOid, slot>>

\* GET /: sendFile without a callback; its failure goes to the global handler.
GetIndex(r, exists) ==
    /\ Free(r)
    /\ sent' = Sent("index", NoDoc,
                    IF exists THEN Response(200, "file", NoDoc)
                    ELSE Response(500, "object", [error |-> "An error occurred"]))
    /\ UNCHANGED <<db1, connectPc, lessons, orders, nextOid, slot>>

----------------------------------------------------------------------------
\* The database executes; the handler resumes

\* The server executes the next statement of r's command.  A write error
\* stops an ordered batch and rejects the command: the catch block answers.
\* After the last statement the command resolves and the handler answers.
ServerStep(r) ==
    /\ Ready
    /\ slot[r] # Idle
    /\ LET s   == slot[r]
           st  == Statements(s.op)[s.applied + 1]
           out == Exec(Coll(st.coll), st)
           n   == s.n + out.n
       IN  /\ IF st.coll = "lessons"
              THEN lessons' = out.coll /\ UNCHANGED orders
              ELSE orders' = out.coll /\ UNCHANGED lessons
           /\ IF ~out.ok
              THEN /\ slot' = [slot EXCEPT ![r] = Idle]
                   /\ sent' = Sent(s.route, s.req, Catch(s.route))
              ELSE IF s.applied + 1 < Len(Statements(s.op))
              THEN /\ slot' = [slot EXCEPT ![r].applied = @ + 1, ![r].n = n]
                   /\ sent' = None
              ELSE /\ slot' = [slot EXCEPT ![r] = Idle]
                   /\ sent' = Sent(s.route, s.req,
                                   Continue(s.route, s.op, [docs |-> out.docs, n |-> n]))
    /\ UNCHANGED <<db1, connectPc, nextOid>>

\* A rejected command whose handler answers as if it had resolved.
FaultAnswersSuccess(r) ==
    /\ Ready
    /\ slot[r] # Idle
    /\ slot' = [slot EXCEPT ![r] = Idle]
    /\ sent' = Sent(slot[r].route, slot[r].req,
                    Continue(slot[r].route, slot[r].op, [docs |-> {}, n |-> slot[r].n]))
    /\ UNCHANGED <<db1, connectPc, lessons, orders, nextOid>>

\* The command is rejected (the connection drops, the server steps down, ...)
\* with any number of its statements executed; nothing is rolled back.
Fault(r) ==
    /\ Ready
    /\ slot[r] # Idle
    /\ slot' = [slot EXCEPT ![r] = Idle]
    /\ sent' = Sent(slot[r].route, slot[r].req, Catch(slot[r].route))
    /\ UNCHANGED <<db1, connectPc, lessons, orders, nextOid>>

\* The response written in this turn has left; the turn ends.
Flush ==
    /\ sent # None
    /\ sent' = None
    /\ UNCHANGED <<db1, connectPc, lessons, orders, nextOid, slot>>

----------------------------------------------------------------------------

\* The stored data at startup: an empty database, or one lesson stored before.
Seeded == GenObjectId(0) :> [_id |-> GenObjectId(0), topic |-> "math", spaces |-> 5]

Init ==
    /\ db1 = "undefined"
    /\ connectPc = "pending"
    /\ \/ lessons = <<>> /\ nextOid = 0
       \/ lessons = Seeded /\ nextOid = 1
    /\ orders = <<>>
    /\ slot = [r \in Slots |-> Idle]
    /\ sent = None

\* A request arrives and its handler runs to its await or its response.
Handle(r) ==
    \/ GetLessons(r)
    \/ \E id \in PathIds : GetLesson(r, id)
    \/ \E body \in LessonBodies : PostLesson(r, body)
    \/ \E updates \in UpdateBodies : UpdateSpaces(r, updates)
    \/ \E id \in PathIds, body \in PutBodies : PutLesson(r, id, body)
    \/ \E id \in PathIds : DeleteLesson(r, id)
    \/ \E body \in OrderBodies : PostOrder(r, body)
    \/ GetOrders(r)
    \/ \E exists \in BOOLEAN : GetImage(r, exists)
    \/ \E exists \in BOOLEAN : GetIndex(r, exists)

Next ==
    \/ ConnectResolve
    \/ ConnectReject
    \/ Flush
    \/ \E r \in Slots : Handle(r) \/ ServerStep(r) \/ Fault(r)

Spec == Init /\ [][Next]_vars

\* One client that waits for each response before its next request.
SeqNext ==
    \/ ConnectResolve
    \/ ConnectReject
    \/ Flush
    \/ Handle(1) \/ ServerStep(1) \/ Fault(1)

SeqSpec == Init /\ [][SeqNext]_vars

----------------------------------------------------------------------------
\* Properties

InFlight(r) == slot[r] # Idle

\* r's command is the one the handler of `route` issued.
Awaiting(r, route) == InFlight(r) /\ slot[r].route = route

\* This step is the database executing the statement that settles the command
\* of `route` in slot r, the handler answering.
Settles(r, route) == Awaiting(r, route) /\ ServerStep(r) /\ slot'[r] = Idle

Message(text) == [message |-> text]

\* What GET /lessons/:id answers for the path identifier `id`, the lookup made
\* in the collection `coll`.
Fetch(coll, id) ==
    IF ~IsHexString(id) THEN Catch("getLesson")
    ELSE Continue("getLesson", NoDoc, FindOne(coll, ObjectId(id)))

\* C1: every lesson document POSTed while the session is set is answered 201
\* with the submitted fields plus a fresh identifier no stored lesson had, and
\* GET /lessons/:id with that identifier then answers 200 with the same
\* fields; also for a body that carries an _id of its own.
C1_CreateThenFetch ==
    [][\A r \in Slots :
        Settles(r, "postLesson") =>
            LET body == slot[r].req.body
                resp == sent'.resp
            IN  /\ resp.status = 201
                /\ resp.kind = "object"
                /\ HasField(resp.body, "_id")
                /\ resp.body["_id"] \notin DOMAIN lessons
                /\ \A f \in DOMAIN body \ {"_id"} :
                      HasField(resp.body, f) /\ resp.body[f] = body[f]
                /\ DOMAIN resp.body = DOMAIN body \cup {"_id"}
                /\ Fetch(lessons', JsonId(resp.body["_id"]))
                      = Response(200, "object", resp.body)
      ]_vars

\* C4: POST /order_placed is always answered 201 "Order placed successfully",
\* the order is in every later listing with its identifier, and no order
\* ever leaves or changes.
C4_OrderPlacedForGood ==
    [][/\ \A r \in Slots :
            Settles(r, "postOrder") =>
                /\ sent'.resp = Response(201, "object", Message("Order placed successfully"))
                /\ \E d \in Find(orders').docs :
                      /\ HasField(d, "_id")
                      /\ \A f \in DOMAIN slot[r].req.body : HasField(d, f) /\ d[f] = slot[r].req.body[f]
                      /\ DOMAIN d = DOMAIN slot[r].req.body \cup {"_id"}
       /\ \A k \in DOMAIN orders : k \in DOMAIN orders' /\ orders'[k] = orders[k]
       /\ \A r \in Slots :
            Settles(r, "getOrders") =>
                /\ sent'.resp.status = 200
                /\ sent'.resp.body = {orders[k] : k \in DOMAIN orders}
      ]_vars

\* C5: N POST /lessons requests in flight together are all answered 201, with
\* pairwise distinct identifiers, each a new stored lesson.
C5_ConcurrentCreate ==
    [][\A r \in Slots :
        Settles(r, "postLesson") =>
            LET key == slot[r].op.doc["_id"]
            IN  /\ sent'.resp.status = 201
                /\ sent'.resp.body["_id"] = key
                /\ key \notin DOMAIN lessons
                /\ key \in DOMAIN lessons'
                /\ \A q \in Slots \ {r} :
                      Awaiting(q, "postLesson") => slot[q].op.doc["_id"] # key
      ]_vars

\* The value the last entry of `items` for the identifier `id` gives.
LastSpaces(items, id) ==
    LET js == {j \in DOMAIN items : items[j].id = id}
        last == CHOOSE j \in js : \A i \in js : i <= j
    IN  items[last].spaces

\* C2: a successful PUT /lessons/updateSpaces leaves every listed lesson that
\* exists with the spaces value given for it (the last entry's when an id is
\* listed twice), its other fields as they were, and every other lesson and
\* every order as it was.  Each statement of the batch sets spaces of its own
\* lesson and nothing else; the success response follows the last one.
C2_BulkSetsSpaces ==
    [][\A r \in Slots :
        (Awaiting(r, "updateSpaces") /\ ServerStep(r)) =>
            LET items == slot[r].req.updates.items
                i     == slot[r].applied + 1
                key   == <<"oid", items[i].id>>
            IN  /\ DOMAIN lessons' = DOMAIN lessons
                /\ \A k \in DOMAIN lessons \ {key} : lessons'[k] = lessons[k]
                /\ key \in DOMAIN lessons =>
                      /\ DOMAIN lessons'[key] = DOMAIN lessons[key] \cup {"spaces"}
                      /\ lessons'[key]["spaces"] = items[i].spaces
                      /\ \A f \in DOMAIN lessons[key] \ {"spaces"} :
                            lessons'[key][f] = lessons[key][f]
                /\ orders' = orders
                /\ sent' # None =>
                      /\ i = Len(items)
                      /\ sent'.resp.status = 200
                      /\ sent'.resp.body["message"] = "Spaces updated successfully"
                      /\ \A j \in DOMAIN items :
                            <<"oid", items[j].id>> \in DOMAIN lessons' =>
                                lessons'[<<"oid", items[j].id>>]["spaces"]
                                    = LastSpaces(items, items[j].id)
      ]_vars

\* C2's case: the batch [{A, 0}, {B, 0}] answered 200, A and B stored with
\* spaces 0 and their topic kept.
C2_Witness ==
    /\ sent.route = "updateSpaces"
    /\ sent.resp.status = 200
    /\ sent.req.updates = JsonArray(<<Entry(GenHex(0), 0), Entry(GenHex(1), 0)>>)
    /\ \A n \in {0, 1} :
          /\ GenObjectId(n) \in DOMAIN lessons
          /\ lessons[GenObjectId(n)] =
                [_id |-> GenObjectId(n), topic |-> "math", spaces |-> 0]

\* An ObjectId the generator has handed out.
Assigned(k) == \E n \in 0..(nextOid - 1) : k = GenObjectId(n)

\* An insertOne of a lesson with the identifier k is in flight.
PendingInsert(k) ==
    \E r \in Slots :
        /\ Awaiting(r, "postLesson")
        /\ slot[r].op.doc["_id"] = k

\* The identifier k was handed out and no lesson is or will be stored under it.
Gone(k) == Assigned(k) /\ k \notin DOMAIN lessons /\ ~PendingInsert(k)

NotFound == Response(404, "object", [error |-> "Lesson not found"])

\* C3: GET /lessons/:id with a well-formed identifier answers 404 "Lesson not
\* found" whenever no lesson is stored under it when the lookup is made; a
\* DELETE leaves no lesson under its identifier, and an identifier whose
\* lesson was removed never holds a lesson again.
C3_AbsentIsNotFound ==
    [][/\ \A r \in Slots :
            (Settles(r, "getLesson") /\ ObjectId(slot[r].req.id) \notin DOMAIN lessons)
                => sent'.resp = NotFound
       /\ \A r \in Slots :
            Settles(r, "deleteLesson") =>
                /\ sent'.resp = Response(200, "object", Message("Lesson deleted successfully"))
                /\ ObjectId(slot[r].req.id) \notin DOMAIN lessons'
                /\ \A id \in PathIds :
                      (id = slot[r].req.id /\ ObjectId(id) \in DOMAIN lessons)
                          => Gone(ObjectId(id))'
       /\ \A n \in 0..MaxOid : Gone(GenObjectId(n)) => Gone(GenObjectId(n))'
      ]_vars

\* C3's case: a fetch answered 404 for an identifier that was handed out and
\* holds no lesson.
C3_Witness ==
    /\ sent.route = "getLesson"
    /\ sent.resp = NotFound
    /\ Gone(ObjectId(sent.req.id))

\* The shape of the response just written, if one was.
FailureShape ==
    sent # None =>
        LET resp == sent.resp
        IN  /\ resp.status \in {200, 201, 404, 500}
            /\ resp.status \in {404, 500} =>
                  /\ resp.kind = "object"
                  /\ DOMAIN resp.body = {"error"}
            /\ resp.status = 404 =>
                  \/ sent.route = "getLesson" /\ resp.body["error"] = "Lesson not found"
                  \/ sent.route = "image" /\ resp.body["error"] = "Image not found"
            /\ (resp.status = 500 /\ sent.route \in Routes) =>
                  resp.body["error"] = CatchMessage(sent.route)
            /\ (sent.route \in {"getLesson", "putLesson", "deleteLesson"}
                    /\ ~IsHexString(sent.req.id)) =>
                  resp.status = 500

\* The slots whose request ends with this step.
Ended == {r \in Slots : InFlight(r) /\ slot'[r] = Idle}

\* C6: every failure response is a JSON object with the single field error and
\* status 404 or 500, never 400; a data-access error or a malformed path
\* identifier is answered 500 with the route's own message; 404 comes only
\* from the single-lesson GET and the image rule; a request is answered once.
C6_FailuresAreErrorObjects ==
    [][/\ FailureShape'
       /\ \A r \in Ended :
            /\ sent' # None
            /\ sent'.route = slot[r].route
            /\ sent'.req = slot[r].req
       /\ sent' # None =>
            /\ sent = None
            /\ Cardinality(Ended) <= 1
            /\ Ended = {} => slot' = slot
       /\ \A r \in Slots : (InFlight(r) /\ slot'[r] # Idle) => slot'[r].req = slot[r].req
      ]_vars

\* C6's case: a malformed path identifier answered 500 by its route's catch
\* while the session is set.
C6_Witness ==
    /\ db1 = "db"
    /\ sent.route = "deleteLesson"
    /\ sent.req.id = NotHex
    /\ sent.resp = Response(500, "object", [error |-> "Failed to delete lesson"])

\* C7: PUT and DELETE /lessons/:id with a well-formed identifier no lesson is
\* stored under answer 200 with their success message and change neither
\* collection.
C7_AbsentTargetIsSuccess ==
    [][\A r \in Slots :
        /\ (Settles(r, "putLesson") /\ ObjectId(slot[r].req.id) \notin DOMAIN lessons) =>
              /\ sent'.resp = Response(200, "object", Message("Lesson updated successfully"))
              /\ UNCHANGED <<lessons, orders>>
        /\ (Settles(r, "deleteLesson") /\ ObjectId(slot[r].req.id) \notin DOMAIN lessons) =>
              /\ sent'.resp = Response(200, "object", Message("Lesson deleted successfully"))
              /\ UNCHANGED <<lessons, orders>>
      ]_vars

\* C7's case: an update of a never assigned identifier answered 200 with a
\* lesson stored, none under that identifier.
C7_Witness ==
    /\ sent.route = "putLesson"
    /\ sent.req.id = NeverAssigned
    /\ sent.req.body = [spaces |-> 0]
    /\ sent.resp = Response(200, "object", Message("Lesson updated successfully"))
    /\ ObjectId(NeverAssigned) \notin DOMAIN lessons
    /\ lessons = Seeded

\* C8: a data-route request handled while db1 is unset is answered 500 with
\* the route's message, issues no command and changes no stored data; after a
\* failed connect db1 stays unset; once set, db1 stays set.
C8_UnsetSessionAnswers500 ==
    [][/\ (db1 = "undefined" /\ sent' # None /\ sent'.route \in Routes) =>
            /\ sent'.resp = Response(500, "object", [error |-> CatchMessage(sent'.route)])
            /\ UNCHANGED <<lessons, orders, slot, nextOid>>
       /\ db1 = "undefined" => \A r \in Slots : slot'[r] = Idle
       /\ (db1 = "undefined" /\ connectPc = "done") =>
            (db1' = "undefined" /\ connectPc' = "done")
       /\ db1 = "db" => db1' = "db"
      ]_vars

\* C8's case: after a failed connect, with a lesson in the database, a POST
\* /lessons is answered 500 and the lesson is as it was.
C8_Witness ==
    /\ connectPc = "done"
    /\ db1 = "undefined"
    /\ sent.route = "postLesson"
    /\ sent.resp = Response(500, "object", [error |-> "Failed to add lesson"])
    /\ lessons = Seeded

\* C9: the batch of PUT /lessons/updateSpaces is executed one statement at a
\* time; when the command fails the request is answered 500 and the lessons
\* stay as the statements executed so far left them.
C9_BatchIsNotAtomic ==
    [][\A r \in Slots :
        Awaiting(r, "updateSpaces") =>
            /\ (slot'[r] = Idle /\ ~ServerStep(r)) =>
                  /\ sent'.resp = Response(500, "object", [error |-> "Failed to update spaces"])
                  /\ UNCHANGED <<lessons, orders>>
            /\ ServerStep(r) =>
                  /\ Cardinality({k \in DOMAIN lessons : lessons'[k] # lessons[k]}) <= 1
                  /\ slot[r].applied + 1 < Len(slot[r].op.ops) =>
                        /\ sent' = None
                        /\ slot'[r].applied = slot[r].applied + 1
      ]_vars

\* C9's case: while the batch [{A, 0}, {B, 0}] has executed its first statement
\* only, another request's GET /lessons is answered with A at 0 and B at 5.
C9_Witness ==
    /\ sent.route = "getLessons"
    /\ sent.resp.status = 200
    /\ \E r \in Slots :
          /\ Awaiting(r, "updateSpaces")
          /\ slot[r].req.updates = JsonArray(<<Entry(GenHex(0), 0), Entry(GenHex(1), 0)>>)
          /\ slot[r].applied = 1
    /\ [_id |-> GenObjectId(0), topic |-> "math", spaces |-> 0] \in sent.resp.body
    /\ [_id |-> GenObjectId(1), topic |-> "math", spaces |-> 5] \in sent.resp.body

\* A body of PUT /lessons/updateSpaces the handler cannot turn into a batch.
Unconvertible(updates) ==
    \/ updates.kind # "array"
    \/ \E i \in DOMAIN updates.items :
          \/ Len(updates.items[i].id) # HexLen
          \/ \E c \in DOMAIN updates.items[i].id : updates.items[i].id[c] \notin HexDigits

\* C10: a PUT /lessons/updateSpaces whose body is no list, or has an entry
\* with a malformed id, is answered 500 "Failed to update spaces" before any
\* command is issued: no lesson is modified, also none named by a well-formed
\* entry before the malformed one.
C10_MalformedEntryRejectsBatch ==
    [][/\ (sent' # None /\ sent'.route = "updateSpaces" /\ Unconvertible(sent'.req.updates)) =>
            /\ sent'.resp = Response(500, "object", [error |-> "Failed to update spaces"])
            /\ UNCHANGED <<lessons, orders, slot>>
       /\ \A r \in Slots :
            (slot'[r] # Idle /\ slot'[r].route = "updateSpaces") =>
                ~Unconvertible(slot'[r].req.updates)
      ]_vars

\* C10's case: the batch [{A, 0}, {too short, 5}] answered 500 with the
\* session set and A stored with its spaces still 5.
C10_Witness ==
    /\ db1 = "db"
    /\ sent.route = "updateSpaces"
    /\ sent.req.updates = JsonArray(<<Entry(GenHex(0), 0), Entry(TooShort, 5)>>)
    /\ sent.resp = Response(500, "object", [error |-> "Failed to update spaces"])
    /\ GenObjectId(0) \in DOMAIN lessons
    /\ lessons[GenObjectId(0)]["spaces"] = 5

====
